---- MODULE Spec2Model ----
(***************************************************************************)
(* A model of src/src/PromptPage.tsx: the PromptInput component (draft     *)
(* text, auto-resized textarea, send button, inert buttons) and the        *)
(* ElegantShape component (entrance animation and looping float).          *)
(*                                                                         *)
(* A draft is a sequence of characters.  A printable ASCII character, the  *)
(* tab and the line feed are written as one-character strings; any other   *)
(* character is written by the name of its code point ("U+00A0").          *)
(*                                                                         *)
(* Every DOM event is one action: the event handler, the browser's default *)
(* action on the textarea, the re-render React performs for the state      *)
(* update, and the useEffect that follows the render.  The default action *)
(* of a key edits the text at the textarea's selection (the caret when it  *)
(* is empty).  The user moves the selection between events and no handler  *)
(* of the component observes it, so it is an input of each key event, as   *)
(* is the text on the clipboard.                                           *)
(***************************************************************************)
EXTENDS Integers, Sequences, FiniteSets, TLC

VARIABLES
    input,       \* useState('') of PromptInput: the draft
    height,      \* textareaRef.current.style.height
    disabled,    \* the disabled attribute of the send button, as last rendered
    lastOp,      \* the last DOM event handled
    prev,        \* the state just before the last event: input, height,
                 \* disabled, untouched, the textarea's selection when a key
                 \* was pressed or text pasted, and what the event before
                 \* had sent
    sent,        \* the arguments onSend was called with during the last event
    sends,       \* number of onSend calls so far
    entries,     \* number of times the draft went from blank to non-blank
    untouched,   \* onSend has been called and the draft has not changed
                 \* since the last call
    mounted,     \* whether the ElegantShape is mounted
    shape,       \* which of the four ElegantShape instances of the page it is
    outer,       \* the outer motion.div's animation (entrance)
    inner        \* the inner motion.div's animation (float)

promptVars == <<input, height, disabled, lastOp, prev, sent, sends, entries,
                untouched>>
shapeVars == <<mounted, shape, outer, inner>>
vars == <<input, height, disabled, lastOp, prev, sent, sends, entries,
          untouched, mounted, shape, outer, inner>>

----------------------------------------------------------------------------
(* Bounds of the model *)

MaxLen == 3             \* longest draft under Spec
MaxResizeLen == 7       \* longest draft under ResizeSpec
MaxEntries == 2
MaxSends == 3
MaxLoops == 2

----------------------------------------------------------------------------
(* Strings *)

\* the characters String.prototype.trim strips: ECMAScript WhiteSpace
\* (TAB, VT, FF, SP, NBSP, ZWNBSP and the Unicode Zs class) and
\* LineTerminator (LF, CR, LS, PS)
WhiteSpace ==
    {"\t", "\n", "U+000B", "\f", "\r", " ", "U+00A0", "U+1680",
     "U+2000", "U+2001", "U+2002", "U+2003", "U+2004", "U+2005", "U+2006",
     "U+2007", "U+2008", "U+2009", "U+200A", "U+2028", "U+2029", "U+202F",
     "U+205F", "U+3000", "U+FEFF"}

Min(a, b) == IF a < b THEN a ELSE b
Max(a, b) == IF a > b THEN a ELSE b

RECURSIVE trimStart(_)
trimStart(s) ==
    IF s # <<>> /\ Head(s) \in WhiteSpace THEN trimStart(Tail(s)) ELSE s

RECURSIVE trimEnd(_)
trimEnd(s) ==
    IF s # <<>> /\ s[Len(s)] \in WhiteSpace
    THEN trimEnd(SubSeq(s, 1, Len(s) - 1))
    ELSE s

\* String.prototype.trim as used on the draft
trim(s) == trimEnd(trimStart(s))

RECURSIVE CountNewlines(_)
CountNewlines(s) ==
    IF s = <<>> THEN 0
    ELSE (IF Head(s) = "\n" THEN 1 ELSE 0) + CountNewlines(Tail(s))

\* s with the characters a+1..b replaced by ins
Splice(s, a, b, ins) == SubSeq(s, 1, a) \o ins \o SubSeq(s, b + 1, Len(s))

----------------------------------------------------------------------------
(* Layout of the textarea (className of the textarea element) *)

PaddingY == 20          \* py-5
LineHeight == 26        \* text-base leading-relaxed: 16px * 1.625
DefaultRows == 2        \* a textarea without a rows attribute
MinHeightPx == 60       \* min-h-[60px]
MaxHeightPx == 200      \* max-h-[200px]
ResizeCap == 200        \* Math.min(scrollHeight, 200)

Auto == [kind |-> "auto", px |-> 0]
Px(n) == [kind |-> "px", px |-> n]

\* height the text itself needs: one line box per line, plus the padding
TextHeight(s) == 2 * PaddingY + (CountNewlines(s) + 1) * LineHeight

\* the element's box height under a given style.height
clientHeight(h) ==
    LET wanted == IF h.kind = "auto"
                  THEN 2 * PaddingY + DefaultRows * LineHeight
                  ELSE h.px
    IN  Max(MinHeightPx, Min(wanted, MaxHeightPx))

\* Element.scrollHeight: never less than the box itself
scrollHeight(s, h) == Max(TextHeight(s), clientHeight(h))

----------------------------------------------------------------------------
(* PromptInput: the handlers *)

\* the mutant of hasContent: the draft is not trimmed
hasContentUntrimmed(s) == s # <<>>

hasContent(s) == trim(s) # <<>>

\* What a handler leaves behind: the state it set and the onSend calls it made
Outcome(s, h, calls) == [input |-> s, height |-> h, sent |-> calls]

\* mutants of handleSubmit: the guard does not trim; the trimmed text is
\* sent; the draft is not cleared
handleSubmitUnguarded(s, h) ==
    IF s # <<>>
    THEN Outcome(<<>>, Auto, <<s>>)
    ELSE Outcome(s, h, <<>>)

handleSubmitTrimmed(s, h) ==
    IF trim(s) # <<>>
    THEN Outcome(<<>>, Auto, <<trim(s)>>)
    ELSE Outcome(s, h, <<>>)

handleSubmitKeepsDraft(s, h) ==
    IF trim(s) # <<>>
    THEN Outcome(s, Auto, <<s>>)
    ELSE Outcome(s, h, <<>>)

handleSubmit(s, h) ==
    IF trim(s) # <<>>
    THEN Outcome(<<>>, Auto, <<s>>)
    ELSE Outcome(s, h, <<>>)

\* mutants of handleKeyDown: preventDefault is not called; shiftKey is not read
handleKeyDownNoPrevent(s, h, key, shiftKey) ==
    IF key = "Enter" /\ ~shiftKey
    THEN [prevented |-> FALSE, out |-> handleSubmit(s, h)]
    ELSE [prevented |-> FALSE, out |-> Outcome(s, h, <<>>)]

handleKeyDownAnyEnter(s, h, key, shiftKey) ==
    IF key = "Enter"
    THEN [prevented |-> TRUE, out |-> handleSubmit(s, h)]
    ELSE [prevented |-> FALSE, out |-> Outcome(s, h, <<>>)]

\* the keydown handler; prevented says whether preventDefault was called
handleKeyDown(s, h, key, shiftKey) ==
    IF key = "Enter" /\ ~shiftKey
    THEN [prevented |-> TRUE, out |-> handleSubmit(s, h)]
    ELSE [prevented |-> FALSE, out |-> Outcome(s, h, <<>>)]

\* onChange: setInput(e.target.value)
onChange(out, value) == [out EXCEPT !.input = value]

\* the mutant of ClickSendOutcome: the click calls onSend and leaves the draft
ClickSendOnlySends(s, h, dis) ==
    IF dis \/ trim(s) = <<>> THEN Outcome(s, h, <<>>) ELSE Outcome(s, h, <<s>>)

\* a click on the send button: a disabled button dispatches no click
ClickSendOutcome(s, h, dis) ==
    IF dis THEN Outcome(s, h, <<>>) ELSE handleSubmit(s, h)

\* the image and microphone buttons have no onClick
IconButtonOutcome(s, h) == Outcome(s, h, <<>>)

\* the mutant of QuickPromptOutcome: the pill acts as a submit button
QuickPromptSubmits(s, h, label) == handleSubmit(s, h)

\* a QuickPrompt pill has no onClick and there is no enclosing form
QuickPromptOutcome(s, h, label) == Outcome(s, h, <<>>)

\* the mutant of resizeEffect: style.height is not reset to auto before
\* scrollHeight is read
resizeEffectNoReset(oldInput, newInput, h) ==
    IF newInput = oldInput
    THEN h
    ELSE Px(Min(scrollHeight(newInput, h), ResizeCap))

\* the auto-resize effect, run after a render in which input changed
resizeEffect(oldInput, newInput, h) ==
    IF newInput = oldInput
    THEN h
    ELSE Px(Min(scrollHeight(newInput, Auto), ResizeCap))

----------------------------------------------------------------------------
(* PromptInput: the textarea element *)

\* the keys whose default action inserts the key's character
PrintableKeys == {"a", " ", "U+00A0"}

\* a textarea's value and selection
Field(value, a, b) == [value |-> value, selStart |-> a, selEnd |-> b]

\* the textarea after a paste of the clipboard text
PasteAction(s, a, b, clip) ==
    Field(Splice(s, a, b, clip), a + Len(clip), a + Len(clip))

\* the textarea after the default action of a key, with clip on the
\* clipboard: the text is edited at the selection; a key that is no editing
\* key leaves it alone.  Shift+Delete cuts the selection, and with nothing
\* selected there is nothing to cut; Shift+Insert pastes the clipboard
DefaultAction(s, a, b, key, shiftKey, clip) ==
    CASE key = "Enter" -> Field(Splice(s, a, b, <<"\n">>), a + 1, a + 1)
      [] key = "Backspace" ->
            IF a < b THEN Field(Splice(s, a, b, <<>>), a, a)
            ELSE IF a > 0 THEN Field(Splice(s, a - 1, a, <<>>), a - 1, a - 1)
            ELSE Field(s, a, b)
      [] key = "Delete" ->
            IF a < b THEN Field(Splice(s, a, b, <<>>), a, a)
            ELSE IF ~shiftKey /\ a < Len(s)
                 THEN Field(Splice(s, a, a + 1, <<>>), a, a)
            ELSE Field(s, a, b)
      [] key = "Insert" ->
            IF shiftKey THEN PasteAction(s, a, b, clip) ELSE Field(s, a, b)
      [] key \in PrintableKeys -> Field(Splice(s, a, b, <<key>>), a + 1, a + 1)
      [] OTHER -> Field(s, a, b)

\* the textarea after React commits the value prop: a value other than
\* the one shown is assigned, and the caret goes to its end
CommitValue(f, value) ==
    IF value = f.value THEN f ELSE Field(value, Len(value), Len(value))

\* a key press on the textarea showing s with the selection a..b and clip
\* on the clipboard: the keydown handler, the commit of its state update,
\* then, unless it was prevented, the key's default action and, if that
\* changed the value, the change event
KeyOutcome(s, h, a, b, key, shiftKey, clip) ==
    LET kd == handleKeyDown(s, h, key, shiftKey)
        f == CommitValue(Field(s, a, b), kd.out.input)
        d == DefaultAction(f.value, f.selStart, f.selEnd, key, shiftKey, clip)
    IN  IF kd.prevented \/ d.value = f.value
        THEN kd.out
        ELSE onChange(kd.out, d.value)

\* a paste into the textarea: the change event only
PasteOutcome(s, h, a, b, clip) ==
    LET d == PasteAction(s, a, b, clip)
    IN  IF d.value = s
        THEN Outcome(s, h, <<>>)
        ELSE onChange(Outcome(s, h, <<>>), d.value)

----------------------------------------------------------------------------
(* PromptInput: the events *)

Labels == {"Minimalist Design", "Bold & Edgy", "Traditional Style"}
SubmitOps == {"Enter", "ClickSend"}
InertOps == {"ClickImage", "ClickMic", "ClickPill"}

Blank(s) == trim(s) = <<>>

\* What the user does under a specification: the character keys pressed,
\* the clipboard texts pasted, the longest draft, whether parts of the text
\* are selected (or only all of it), and whether the onSend calls and the
\* entries of a draft are counted
MainEnv ==
    [keys |-> {"a", " "}, clips |-> {<<"\t">>}, maxLen |-> MaxLen,
     ranges |-> TRUE, counting |-> FALSE]

CountEnv ==
    [keys |-> {"a", " "}, clips |-> {<<"\t">>}, maxLen |-> MaxLen,
     ranges |-> FALSE, counting |-> TRUE]

ResizeEnv ==
    [keys |-> {"a"}, clips |-> {<<"a", "\n">>}, maxLen |-> MaxResizeLen,
     ranges |-> FALSE, counting |-> FALSE]

\* the selections the user makes in a textarea showing s
Selections(E, s) ==
    {r \in (0..Len(s)) \X (0..Len(s)) :
        /\ r[1] <= r[2]
        /\ E.ranges \/ r[1] = r[2] \/ r = <<0, Len(s)>>}

\* no selection: the event is no edit of the textarea
NoSel == <<0, 0>>

\* The event is handled, React re-renders, the effect runs.
Commit(E, op, r, out) ==
    LET entered == IF Blank(input) /\ ~Blank(out.input) THEN 1 ELSE 0
    IN  /\ Len(out.input) <= E.maxLen
        /\ input' = out.input
        /\ height' = resizeEffect(input, out.input, out.height)
        /\ disabled' = ~hasContent(out.input)
        /\ lastOp' = op
        /\ prev' = [input |-> input, selStart |-> r[1], selEnd |-> r[2],
                    height |-> height, disabled |-> disabled,
                    sent |-> sent, untouched |-> untouched]
        /\ sent' = out.sent
        /\ untouched' = IF out.sent # <<>> THEN TRUE
                        ELSE IF out.input # input THEN FALSE
                        ELSE untouched
        /\ IF E.counting
           THEN /\ entries + entered <= MaxEntries
                /\ sends + Len(out.sent) <= MaxSends
                /\ sends' = sends + Len(out.sent)
                /\ entries' = entries + entered
           ELSE UNCHANGED <<sends, entries>>
        /\ UNCHANGED shapeVars

\* a key is pressed in the textarea, with some selection and some clipboard
Press(E, op, key, shiftKey) ==
    \E r \in Selections(E, input) : \E clip \in E.clips :
        Commit(E, op, r,
               KeyOutcome(input, height, r[1], r[2], key, shiftKey, clip))

PressEnter(E) == Press(E, "Enter", "Enter", FALSE)

PressShiftEnter(E) == Press(E, "ShiftEnter", "Enter", TRUE)

TypeChar(E) == \E c \in E.keys : Press(E, "Type", c, FALSE)

PressBackspace(E) == Press(E, "Backspace", "Backspace", FALSE)

PressDelete(E) == Press(E, "Delete", "Delete", FALSE)

PressShiftDelete(E) == Press(E, "ShiftDelete", "Delete", TRUE)

PressInsert(E) == Press(E, "Insert", "Insert", FALSE)

PressShiftInsert(E) == Press(E, "ShiftInsert", "Insert", TRUE)

Paste(E) ==
    \E r \in Selections(E, input) : \E clip \in E.clips :
        Commit(E, "Paste", r, PasteOutcome(input, height, r[1], r[2], clip))

ClickSend(E) ==
    Commit(E, "ClickSend", NoSel, ClickSendOutcome(input, height, disabled))

ClickImage(E) ==
    Commit(E, "ClickImage", NoSel, IconButtonOutcome(input, height))

ClickMic(E) ==
    Commit(E, "ClickMic", NoSel, IconButtonOutcome(input, height))

ClickPill(E) ==
    \E l \in Labels :
        Commit(E, "ClickPill", NoSel, QuickPromptOutcome(input, height, l))

----------------------------------------------------------------------------
(* ElegantShape.  Time is counted in ticks of 0.1 s. *)

Infinity == -1                  \* Number.POSITIVE_INFINITY as a repeat count

EntranceDuration == 24          \* transition.duration 2.4
FloatDuration == 120            \* transition.duration 12

\* the delay prop of the four ElegantShape instances PromptPage renders
ShapeDelay == <<3, 5, 4, 6>>

\* transition of the outer motion.div (initial -> animate, played once)
entranceTransition(i) ==
    [delay |-> ShapeDelay[i], duration |-> EntranceDuration, repeat |-> 0]

\* the mutant of floatTransition: the oscillation is played once
floatTransitionOnce == [delay |-> 0, duration |-> FloatDuration, repeat |-> 0]

\* transition of the inner motion.div (y: [0, 15, 0], repeated for ever)
floatTransition == [delay |-> 0, duration |-> FloatDuration, repeat |-> Infinity]

\* an animation as started on mount
Started == [t |-> 0, loops |-> 0, done |-> FALSE]

\* one tick of an animation a playing under transition tr: t is the time
\* since the start (within the current iteration once past the delay),
\* loops the number of completed iterations
AnimTick(tr, a) ==
    IF a.done THEN a
    ELSE IF a.t + 1 < tr.delay + tr.duration THEN [a EXCEPT !.t = a.t + 1]
    ELSE IF tr.repeat = Infinity \/ a.loops < tr.repeat
         THEN [t |-> tr.delay, loops |-> Min(a.loops + 1, MaxLoops), done |-> FALSE]
         ELSE [t |-> tr.delay + tr.duration, loops |-> a.loops, done |-> TRUE]

\* the animation is playing: past its delay and not finished
Playing(tr, a) == ~a.done /\ a.t >= tr.delay

\* the shape has not reached its settled position yet
Entering == mounted /\ ~outer.done

\* the float oscillation is playing
Floating == mounted /\ Playing(floatTransition, inner)

\* React mounts the component: both motion.divs start their animate target
MountShape ==
    /\ ~mounted
    /\ \E i \in 1..Len(ShapeDelay) : shape' = i
    /\ mounted' = TRUE
    /\ outer' = Started
    /\ inner' = Started
    /\ UNCHANGED promptVars

\* 0.1 s of animation time passes
TickShape ==
    /\ mounted
    /\ outer' = AnimTick(entranceTransition(shape), outer)
    /\ inner' = AnimTick(floatTransition, inner)
    /\ UNCHANGED <<mounted, shape>>
    /\ UNCHANGED promptVars

\* React unmounts the component: its animations are stopped
UnmountShape ==
    /\ mounted
    /\ mounted' = FALSE
    /\ shape' = 1
    /\ outer' = Started
    /\ inner' = Started
    /\ UNCHANGED promptVars

----------------------------------------------------------------------------
(* Specifications *)

PromptInit ==
    /\ input = <<>>
    /\ height = Px(Min(scrollHeight(<<>>, Auto), ResizeCap))
    /\ disabled = ~hasContent(<<>>)
    /\ lastOp = "Mount"
    /\ prev = [input |-> <<>>, selStart |-> 0, selEnd |-> 0, height |-> Auto,
               disabled |-> TRUE, sent |-> <<>>, untouched |-> FALSE]
    /\ untouched = FALSE
    /\ sent = <<>>
    /\ sends = 0
    /\ entries = 0

ShapeIdle ==
    /\ mounted = FALSE
    /\ shape = 1
    /\ outer = Started
    /\ inner = Started

Init == PromptInit /\ ShapeIdle

Events(E) ==
    \/ PressEnter(E)
    \/ PressShiftEnter(E)
    \/ TypeChar(E)
    \/ PressBackspace(E)
    \/ PressDelete(E)
    \/ PressShiftDelete(E)
    \/ PressInsert(E)
    \/ PressShiftInsert(E)
    \/ Paste(E)
    \/ ClickSend(E)
    \/ ClickImage(E)
    \/ ClickMic(E)
    \/ ClickPill(E)

\* PromptInput with short drafts over letters, spaces, tabs and line feeds
Next == Events(MainEnv)

Spec == Init /\ [][Next]_vars

\* PromptInput with the onSend calls and the entries of a draft counted
CountNext == Events(CountEnv)

CountSpec == Init /\ [][CountNext]_vars

\* PromptInput with drafts long enough to pass the height cap
ResizeNext == Events(ResizeEnv)

ResizeSpec == Init /\ [][ResizeNext]_vars

ShapeNext ==
    \/ MountShape
    \/ TickShape
    \/ UnmountShape

ShapeSpec == Init /\ [][ShapeNext]_vars

----------------------------------------------------------------------------
(* Properties *)

\* what the component shows after an event whose handlers left `out`,
\* started from draft s: the draft, the height after the effect, the calls
Shown(s, out) ==
    [input |-> out.input,
     height |-> resizeEffect(s, out.input, out.height),
     sent |-> out.sent]

Current == [input |-> input, height |-> height, sent |-> sent]

LastChar(s) == s[Len(s)]

\* C1: a submission trigger (Enter without Shift, or a click on the send
\* button) on a draft that is empty or only whitespace calls onSend zero
\* times and leaves the draft exactly as it was.
C1_BlankDraftNotSubmitted ==
    (lastOp \in SubmitOps /\ Blank(prev.input)) =>
        (sent = <<>> /\ input = prev.input)

C1_Witness ==
    /\ lastOp = "Enter"
    /\ Blank(prev.input)
    /\ Len(prev.input) = 3
    /\ {prev.input[i] : i \in 1..3} = {" ", "\t", "\n"}
    /\ input = prev.input

\* C2: Enter without Shift on a draft whose trimmed form is non-empty calls
\* onSend exactly once, and the draft is empty afterwards (no newline is
\* inserted).
C2_EnterSubmitsOnce ==
    (lastOp = "Enter" /\ ~Blank(prev.input)) =>
        (Len(sent) = 1 /\ input = <<>>)

C2_Witness ==
    /\ lastOp = "Enter"
    /\ ~Blank(prev.input)
    /\ Len(prev.input) >= 2
    /\ prev.selStart < Len(prev.input)
    /\ Len(sent) = 1
    /\ input = <<>>

\* C3: whenever onSend is called, its argument is the draft as it was,
\* character for character, leading and trailing whitespace included.
C3_RawDraftSent ==
    sent # <<>> => sent = <<prev.input>>

C3_Witness ==
    /\ sent # <<>>
    /\ Head(prev.input) \in WhiteSpace
    /\ LastChar(prev.input) \in WhiteSpace
    /\ sent[1] = prev.input

\* C4: in every reachable state the send button is enabled if and only if
\* the trimmed draft is not the empty string.
C4_SendEnabledIffContent ==
    (~disabled) <=> (trim(input) # <<>>)

C4_Witness ==
    /\ disabled
    /\ Len(input) = 2
    /\ "\t" \in {input[i] : i \in 1..2}
    /\ lastOp = "Backspace"
    /\ ~prev.disabled

\* C5: Shift+Enter never submits: onSend is not called and the draft gains a
\* newline, whether or not the draft is blank.  The newline is put where the
\* caret is, in place of the selected text if there is any; with the caret
\* at the end of the text, as after typing it, "Hello" becomes "Hello\n".
C5_ShiftEnterInsertsNewline ==
    lastOp = "ShiftEnter" =>
        /\ sent = <<>>
        /\ Len(input) = Len(prev.input) - (prev.selEnd - prev.selStart) + 1
        /\ input[prev.selStart + 1] = "\n"
        /\ SubSeq(input, 1, prev.selStart) = SubSeq(prev.input, 1, prev.selStart)
        /\ SubSeq(input, prev.selStart + 2, Len(input))
               = SubSeq(prev.input, prev.selEnd + 1, Len(prev.input))
        /\ prev.selStart = Len(prev.input) => input = Append(prev.input, "\n")

C5_Witness ==
    /\ lastOp = "ShiftEnter"
    /\ ~Blank(prev.input)
    /\ prev.selStart = Len(prev.input)
    /\ input = Append(prev.input, "\n")
    /\ sent = <<>>

\* C6: a click on the enabled send button leaves what Enter without Shift
\* would have left from the same state (the same onSend calls, draft and
\* height), wherever the caret is and whatever the clipboard holds; a click
\* on the disabled button calls nothing and changes nothing.
C6_ClickSameAsEnter ==
    lastOp = "ClickSend" =>
        IF prev.disabled
        THEN Current = [input |-> prev.input, height |-> prev.height, sent |-> <<>>]
        ELSE \A r \in Selections(MainEnv, prev.input) :
             \A clip \in MainEnv.clips :
                Current = Shown(prev.input,
                                KeyOutcome(prev.input, prev.height, r[1], r[2],
                                           "Enter", FALSE, clip))

C6_Witness ==
    /\ lastOp = "ClickSend"
    /\ ~prev.disabled
    /\ sent = <<prev.input>>
    /\ input = <<>>

\* C7: the field height is always min(content height of the current draft,
\* 200), the content height being scrollHeight under height: auto; so it
\* never exceeds 200, depends on the current draft only, and after a
\* successful submit is the height of the empty draft.
C7_HeightIsCappedContentHeight ==
    /\ height = Px(Min(scrollHeight(input, Auto), ResizeCap))
    /\ height.px <= ResizeCap
    /\ sent # <<>> => height = Px(Min(scrollHeight(<<>>, Auto), ResizeCap))

C7_Witness ==
    /\ lastOp = "Backspace"
    /\ ~Blank(prev.input)
    /\ TextHeight(prev.input) > ResizeCap
    /\ prev.height = Px(ResizeCap)
    /\ height.px < prev.height.px

\* C8: a click on the image button, the microphone button or a suggestion
\* pill leaves the draft, the height and the send button's disabled state
\* unchanged and calls onSend zero times.
C8_InertButtons ==
    lastOp \in InertOps =>
        /\ input = prev.input
        /\ height = prev.height
        /\ disabled = prev.disabled
        /\ sent = <<>>

C8_Witness ==
    /\ lastOp = "ClickPill"
    /\ ~Blank(input)
    /\ input = prev.input
    /\ ~disabled

\* C9 as stated: a shape is never floating while it is still entering.
C9_FloatOnlyAfterEntrance ==
    Floating => ~Entering

\* C9 amended: the float animation starts when the shape is mounted, while
\* the entrance animation (and its delay) is still to run, and it is playing
\* in every state in which the shape is mounted: it has no terminal state.
C9_FloatsWhileMounted ==
    mounted => Floating

C9_Witness ==
    /\ mounted
    /\ Floating
    /\ inner.loops >= 1
    /\ ~Entering

\* C10: onSend is never called more often than the draft went from blank to
\* non-blank and at most once per trigger; and after a successful submit,
\* as long as the draft has not been changed, every submission trigger, the
\* first and any later one, calls it zero times.
C10_NoRepeatedSubmission ==
    /\ sends <= entries
    /\ Len(sent) <= 1
    /\ (lastOp \in SubmitOps /\ prev.untouched) => sent = <<>>
    /\ untouched => input = <<>>

\* a second trigger in a row after the second successful submit
C10_Witness ==
    /\ lastOp \in SubmitOps
    /\ prev.untouched
    /\ prev.sent = <<>>
    /\ prev.input = <<>>
    /\ sent = <<>>
    /\ untouched
    /\ prev.selStart = 0
    /\ sends = 2
    /\ entries = 2

====
